---- MODULE Spec2Model ----
(***************************************************************************)
(* Acquisition optimization of MyGPyOpt                                    *)
(* (src/MyGPyOpt/optimization/acquisition_optimizer.py).                   *)
(*                                                                         *)
(*  - AcquisitionOptimizer: __init__ and optimize.  One optimize call is   *)
(*    one step; its outcome (pair returned or exception raised) is kept in *)
(*    the state together with what the call computed.                      *)
(*  - ContextManager: __init__ and _expand_vector, with numpy's indexed    *)
(*    assignment (broadcast of the assigned value, shape-mismatch error).  *)
(*                                                                         *)
(* Arrays are sequences; numpy indices are kept 0-based as in the code, so *)
(* column i of a row is element i + 1 of the sequence.  Real numbers are   *)
(* integers in tenths (3 stands for 0.3).                                  *)
(***************************************************************************)
EXTENDS Integers, Sequences, FiniteSets, TLC

VARIABLES
    \* ---- AcquisitionOptimizer
    type_anchor_points_logic, \* self.type_anchor_points_logic
    spec_win_cnt,             \* self.spec_win_cnt
    calls,                    \* number of optimize calls made so far
    call_args,                \* arguments of the last optimize call
    anchor_points,            \* anchor_points of the last call
    apply_calls,              \* arguments of each apply_optimizer call of the last call
    optimized_points,         \* optimized_points of the last call (empty if it was never bound)
    min_idx,                  \* min_idx of the last call, -1 if it was never bound
    ret,                      \* what the last call returned
    exc,                      \* the exception the last call raised
    failed_at,                \* index of the anchor whose backend run failed, -1 if none
    win_log,                  \* min_idx of every completed call, oldest first
    \* ---- ContextManager
    space,                    \* the design space: a sequence of variable types
    constructed,              \* whether ContextManager.__init__ has run
    context,                  \* the context argument of __init__
    all_index, all_index_obj,
    context_index, context_value, context_index_obj,
    nocontext_index_obj, noncontext_bounds, noncontext_index,
    x_in,                     \* argument of the last _expand_vector call
    x_expanded,               \* its result
    re_expanded               \* whether x_in was the previous call's result

ao_vars == <<type_anchor_points_logic, spec_win_cnt, calls, call_args, anchor_points,
             apply_calls, optimized_points, min_idx, ret, exc, failed_at, win_log>>
cm_fields == <<all_index, all_index_obj, context_index, context_value, context_index_obj,
               nocontext_index_obj, noncontext_bounds, noncontext_index>>
cm_vars == <<space, constructed, context, cm_fields, x_in, x_expanded, re_expanded>>
vars == <<ao_vars, cm_vars>>

-----------------------------------------------------------------------------
(* Bounds *)

\* optimize calls followed in one behaviour
MaxCalls == 2
\* variables of a design space
MaxVars == 3
\* rows of an array given to _expand_vector
MaxRows == 2

-----------------------------------------------------------------------------
(* Constants of the program *)

max_objective_anchor_points_logic == "max_objective"
thompson_sampling_anchor_points_logic == "thompson_sampling"

\* num_anchors in optimize
num_anchors == 5

\* anchor count of the generators' get (default of the anchor point set)
K == 5

None == "None"

-----------------------------------------------------------------------------
(* Sequence helpers *)

Range(s) == {s[i] : i \in 1..Len(s)}

RECURSIVE Concat(_)
\* list concatenation of a sequence of lists
Concat(ss) == IF ss = <<>> THEN <<>> ELSE Head(ss) \o Concat(Tail(ss))

RECURSIVE Filter(_, _)
\* [e for e in s if e not in excluded]
Filter(s, excluded) ==
    IF s = <<>> THEN <<>>
    ELSE IF Head(s) \in excluded THEN Filter(Tail(s), excluded)
         ELSE <<Head(s)>> \o Filter(Tail(s), excluded)

\* list(range(n))
range(n) == [i \in 1..n |-> i - 1]

-----------------------------------------------------------------------------
(* The design space (MyGPyOpt.core.task.space): a sequence of variables,   *)
(* named by their position.  A continuous variable takes one model         *)
(* dimension, a categorical one is one-hot encoded over CategoricalDim     *)
(* model dimensions; each takes one objective dimension.                   *)

VarTypes == {"continuous", "categorical"}

CategoricalDim == 2

Spaces == UNION {[1..n -> VarTypes] : n \in 1..MaxVars}

\* the 2-D box of two continuous variables
BoxSpace == <<"continuous", "continuous">>

dimensionality_in_model(type) == IF type = "continuous" THEN 1 ELSE CategoricalDim

RECURSIVE model_dimensionality(_)
\* space.model_dimensionality
model_dimensionality(sp) ==
    IF sp = <<>> THEN 0
    ELSE dimensionality_in_model(Head(sp)) + model_dimensionality(Tail(sp))

\* len(space.config_space_expanded)
objective_dimensionality(sp) == Len(sp)

\* variable.index_in_model: contiguous, after the dimensions of the earlier variables
index_in_model(sp, p) ==
    LET first == model_dimensionality(SubSeq(sp, 1, p - 1))
    IN  [i \in 1..dimensionality_in_model(sp[p]) |-> first + i - 1]

\* variable.index_in_objective
index_in_objective(sp, p) == <<p - 1>>

\* variable.objective_to_model(value): the value itself, or its one-hot encoding
objective_to_model(sp, p, value) ==
    IF sp[p] = "continuous" THEN <<value>>
    ELSE [i \in 1..CategoricalDim |-> IF i - 1 = value THEN 1 ELSE 0]

\* space.get_bounds(): one (low, high) per model dimension
get_bounds(sp) ==
    Concat([p \in 1..Len(sp) |->
              IF sp[p] = "continuous" THEN << <<0, 10 * p>> >>
              ELSE [i \in 1..CategoricalDim |-> <<0, 1>>]])

\* objective-space values a context can fix a variable to
ObjectiveValues(type) == IF type = "continuous" THEN {3, 7} ELSE 0..(CategoricalDim - 1)

AllObjectiveValues == UNION {ObjectiveValues(t) : t \in VarTypes}

\* context dictionaries over the variables of sp, as (name, value) items in
\* iteration order; keys are unique
ContextItems(sp) ==
    {c \in UNION {[1..m -> (1..Len(sp)) \X AllObjectiveValues] : m \in 0..Len(sp)} :
        /\ \A i, j \in 1..Len(c) : i # j => c[i][1] # c[j][1]
        /\ \A i \in 1..Len(c) : c[i][2] \in ObjectiveValues(sp[c[i][1]])}

NoContext == [given |-> FALSE, items |-> <<>>]

Contexts(sp) == {NoContext} \cup {[given |-> TRUE, items |-> c] : c \in ContextItems(sp)}

-----------------------------------------------------------------------------
(* ContextManager *)

\* context_index after the loop over context.keys()
ContextIndex(sp, items) == Concat([i \in 1..Len(items) |-> index_in_model(sp, items[i][1])])

\* context_index_obj after the loop
ContextIndexObj(sp, items) ==
    Concat([i \in 1..Len(items) |-> index_in_objective(sp, items[i][1])])

\* mutant: each variable's values put in front of context_value instead of behind
ContextValuePrepended(sp, items) ==
    Concat([i \in 1..Len(items) |->
              objective_to_model(sp, items[Len(items) + 1 - i][1], items[Len(items) + 1 - i][2])])

\* context_value after the loop
ContextValue(sp, items) ==
    Concat([i \in 1..Len(items) |-> objective_to_model(sp, items[i][1], items[i][2])])

\* mutant: the comprehension without its filter
NonContextIndexUnfiltered(all, ctx_index) == all

\* [idx for idx in self.all_index if idx not in self.context_index]
NonContextIndex(all, ctx_index) == Filter(all, Range(ctx_index))

\* [self.noncontext_bounds[idx] for idx in self.noncontext_index]
NonContextBounds(bounds, nc_index) == [j \in 1..Len(nc_index) |-> bounds[nc_index[j] + 1]]

ContextManager__init__(ctx) ==
    /\ ~constructed
    /\ constructed' = TRUE
    /\ context' = ctx
    /\ all_index' = range(model_dimensionality(space))
    /\ all_index_obj' = range(objective_dimensionality(space))
    /\ IF ~ctx.given
       THEN /\ context_index' = <<>>
            /\ context_value' = <<>>
            /\ context_index_obj' = <<>>
            /\ nocontext_index_obj' = all_index_obj'
            /\ noncontext_bounds' = get_bounds(space)
            /\ noncontext_index' = all_index'
       ELSE /\ context_index' = ContextIndex(space, ctx.items)
            /\ context_index_obj' = ContextIndexObj(space, ctx.items)
            /\ context_value' = ContextValue(space, ctx.items)
            /\ noncontext_index' = NonContextIndex(all_index', context_index')
            /\ noncontext_bounds' = NonContextBounds(get_bounds(space), noncontext_index')
            /\ nocontext_index_obj' = NonContextIndex(all_index_obj', context_index_obj')
    /\ UNCHANGED <<space, x_in, x_expanded, re_expanded>>

(* numpy arrays: [ndim, data]; data is a row (ndim 1) or a sequence of     *)
(* equally long rows (ndim 2).                                             *)

NoArray == [ndim |-> 0, data |-> <<>>]

NoResult == [error |-> "none", value |-> <<>>]

\* np.atleast_2d: a 1-D input becomes a single row
atleast_2d(x) == IF x.ndim = 1 THEN <<x.data>> ELSE x.data

\* np.zeros((n, d))
zeros(n, d) == [r \in 1..n |-> [c \in 1..d |-> 0]]

RECURSIVE SetColumns(_, _, _)
\* row[idx] = vals, column by column; a repeated index keeps the last value
SetColumns(row, idx, vals) ==
    IF idx = <<>> THEN row
    ELSE SetColumns([row EXCEPT ![Head(idx) + 1] = Head(vals)], Tail(idx), Tail(vals))

\* mutant: every column takes the row's first value
BroadcastRowFirst(v, k) == [j \in 1..k |-> v[1]]

\* numpy broadcasting of one row of width w to width k (w = k or w = 1)
BroadcastRow(v, k) == IF Len(v) = k THEN v ELSE [j \in 1..k |-> v[1]]

\* mutant: a value wider than the indexed columns is cut to fit instead of rejected
SetItemTruncating(arr, idx, val) ==
    LET n == Len(arr)
        k == Len(idx)
        m == Len(val)
        w == Len(val[1])
    IN  IF ~((m = n \/ m = 1) /\ (w >= k \/ w = 1))
        THEN [error |-> "ValueError", value |-> <<>>]
        ELSE [error |-> "none",
              value |-> [r \in 1..n |->
                           SetColumns(arr[r], idx,
                                      IF w >= k THEN SubSeq(val[IF m = 1 THEN 1 ELSE r], 1, k)
                                      ELSE BroadcastRow(val[IF m = 1 THEN 1 ELSE r], k))]]

\* arr[:, idx] = val for an (n, d) array arr and a 2-D val of shape (m, w):
\* val must broadcast to (n, len(idx)), else ValueError (shape mismatch)
SetItem(arr, idx, val) ==
    LET n == Len(arr)
        k == Len(idx)
        m == Len(val)
        w == Len(val[1])
    IN  IF \E i \in 1..k : idx[i] >= Len(arr[1])
        THEN [error |-> "IndexError", value |-> <<>>]
        ELSE IF ~((m = n \/ m = 1) /\ (w = k \/ w = 1))
        THEN [error |-> "ValueError", value |-> <<>>]
        ELSE [error |-> "none",
              value |-> [r \in 1..n |->
                           SetColumns(arr[r], idx,
                                      BroadcastRow(val[IF m = 1 THEN 1 ELSE r], k))]]

\* ContextManager._expand_vector
_expand_vector(x, d, nc_index, ctx_index, ctx_value) ==
    LET x2 == atleast_2d(x)
        noncontext_set == SetItem(zeros(Len(x2), d), nc_index, x2)
    IN  IF noncontext_set.error # "none" THEN noncontext_set
        ELSE SetItem(noncontext_set.value, ctx_index, <<ctx_value>>)

\* entry (r, j) of an input array: every entry differs from every other one, from
\* the zeros of np.zeros and from every context value, so a misplaced column shows
Entry(r, j) == 10 * r + j

\* the arrays given to _expand_vector: 1-D vectors and 2-D arrays of up to MaxRows rows,
\* of every width up to maxw
Arrays(maxw) ==
    UNION {{[ndim |-> 1, data |-> [j \in 1..w |-> Entry(1, j)]]} \cup
           {[ndim |-> 2, data |-> [r \in 1..n |-> [j \in 1..w |-> Entry(r, j)]]] :
               n \in 1..MaxRows}
           : w \in 0..maxw}

\* context_manager._expand_vector(x)
expand(x) ==
    /\ constructed
    /\ x_in.ndim = 0
    /\ x_in' = x
    /\ x_expanded' = _expand_vector(x, model_dimensionality(space), noncontext_index,
                                    context_index, context_value)
    /\ re_expanded' = FALSE
    /\ UNCHANGED <<space, constructed, context, cm_fields>>

\* context_manager._expand_vector(x_expanded): the previous result expanded again
expand_again ==
    /\ constructed
    /\ x_in.ndim # 0
    /\ ~re_expanded
    /\ x_expanded.error = "none"
    /\ x_in' = [ndim |-> 2, data |-> x_expanded.value]
    /\ x_expanded' = _expand_vector(x_in', model_dimensionality(space), noncontext_index,
                                    context_index, context_value)
    /\ re_expanded' = TRUE
    /\ UNCHANGED <<space, constructed, context, cm_fields>>

-----------------------------------------------------------------------------
(* Anchor point generators and optimizer adapter                           *)
(* (anchor_points_generator.py, optimizer.py)                              *)

NoPoint == <<"None", 0>>

\* the caller-specified point
XOptPoint == <<"x_opt", 0>>

\* the i-th best non-duplicate candidate of the generator's design
GeneratedPoint(i) == <<"generated", i>>

\* AnchorPointsGenerator.get(duplicate_manager, context_manager, x_opt): the n <= K
\* best candidates the duplicate manager does not flag, in rank order, then x_opt
\* if one is given
get(n, x_opt) ==
    [i \in 1..n |-> GeneratedPoint(i)] \o (IF x_opt = NoPoint THEN <<>> ELSE <<x_opt>>)

\* objective values an optimizer run can end with; np.argmin depends on their
\* order only, so two values give every pattern of minima and ties
Values == {0, 1}

\* apply_optimizer(optimizer, a, ...): the (point, value) pair of the run from anchor a
apply_optimizer(a, fx) == <<<<"optimized", a>>, fx>>

\* what a failing backend run raises
BackendError == [type |-> "BackendError", anchor_index |-> -1]

-----------------------------------------------------------------------------
(* AcquisitionOptimizer *)

NoException == [type |-> "none", anchor_index |-> -1]

ValueError == [type |-> "ValueError", anchor_index |-> -1]

IndexError == [type |-> "IndexError", anchor_index |-> -1]

NoReturn == [returned |-> FALSE, x_min |-> NoPoint, fx_min |-> 0]

NoCall == [f |-> None, df |-> None, f_df |-> None, x_opt |-> NoPoint]

\* the keyword arguments optimize gives apply_optimizer for anchor a
ApplyArguments(a, f, df, f_df) == [a |-> a, f |-> f, df |-> None, f_df |-> f_df]

\* mutant: the exception wrapped with the anchor's index
PropagateWrapped(e, i) == [type |-> "OptimizerExecutionError", anchor_index |-> i]

\* an exception raised inside the list comprehension leaves optimize as it is:
\* the comprehension has no handler and does not know the anchor's index
Propagate(e, i) == e

\* np.vstack([o[1] for o in optimized_points]).flatten(); vstack of no arrays raises
vstack_flatten(points) ==
    IF points = <<>> THEN [error |-> ValueError, value |-> <<>>]
    ELSE [error |-> NoException, value |-> [i \in 1..Len(points) |-> points[i][2]]]

\* mutant: the last occurrence of the minimum
argmin_last(v) ==
    CHOOSE i \in 0..(Len(v) - 1) :
        /\ \A j \in 0..(Len(v) - 1) : v[i + 1] <= v[j + 1]
        /\ \A j \in (i + 1)..(Len(v) - 1) : v[j + 1] > v[i + 1]

\* np.argmin: the 0-based index of the first occurrence of the minimum
argmin(v) ==
    CHOOSE i \in 0..(Len(v) - 1) :
        /\ \A j \in 0..(Len(v) - 1) : v[i + 1] <= v[j + 1]
        /\ \A j \in 0..(i - 1) : v[j + 1] > v[i + 1]

\* mutant: index 0 for an empty list instead of the error
MinIdxDefault(points) ==
    IF points = <<>> THEN [error |-> NoException, idx |-> 0]
    ELSE [error |-> NoException, idx |-> argmin(vstack_flatten(points).value)]

\* min_idx = np.argmin(np.vstack(...).flatten())
MinIdx(points) ==
    LET stacked == vstack_flatten(points)
    IN  IF stacked.error # NoException THEN [error |-> stacked.error, idx |-> -1]
        ELSE [error |-> NoException, idx |-> argmin(stacked.value)]

\* mutant: > in place of >=
CountSpecWinStrict(cnt, idx) == IF idx > num_anchors THEN cnt + 1 ELSE cnt

\* if min_idx >= num_anchors: self.spec_win_cnt += 1
CountSpecWin(cnt, idx) == IF idx >= num_anchors THEN cnt + 1 ELSE cnt

\* optimized_points[min_idx]
GetItem(points, idx) ==
    IF idx >= Len(points) THEN [error |-> IndexError, value |-> <<NoPoint, 0>>]
    ELSE [error |-> NoException, value |-> points[idx + 1]]

\* optimize raises e: nothing is returned and nothing after the raise runs
Raises(e, cnt) ==
    /\ exc' = e
    /\ ret' = NoReturn
    /\ spec_win_cnt' = cnt
    /\ UNCHANGED win_log

\* optimize(f, df, f_df, duplicate_manager, x_opt), where the generator returns n
\* generated anchors, the optimizer run of anchor i ends with value fx[i], and the
\* run of anchor number fail (1-based; 0: none) raises
optimize(f, df, f_df, x_opt, n, fx, fail) ==
    \E anchors \in {get(n, x_opt)} :
    \E points \in {[i \in 1..Len(anchors) |-> apply_optimizer(anchors[i], fx[i])]} :
    \E found \in {MinIdx(points)} :
    \E best \in {IF found.error # NoException THEN [error |-> found.error, value |-> <<NoPoint, 0>>]
                 ELSE GetItem(points, found.idx)} :
        /\ calls < MaxCalls
        /\ calls' = calls + 1
        /\ call_args' = [f |-> f, df |-> df, f_df |-> f_df, x_opt |-> x_opt]
        /\ anchor_points' = anchors
        /\ apply_calls' = [i \in 1..(IF fail = 0 THEN Len(anchors) ELSE fail) |->
                             ApplyArguments(anchors[i], f, df, f_df)]
        /\ failed_at' = fail - 1
        /\ IF fail # 0
           THEN /\ optimized_points' = <<>>
                /\ min_idx' = -1
                /\ Raises(Propagate(BackendError, fail - 1), spec_win_cnt)
           ELSE /\ optimized_points' = points
                /\ min_idx' = found.idx
                /\ IF found.error # NoException THEN Raises(found.error, spec_win_cnt)
                   ELSE IF best.error # NoException
                   THEN Raises(best.error, CountSpecWin(spec_win_cnt, found.idx))
                   ELSE /\ spec_win_cnt' = CountSpecWin(spec_win_cnt, found.idx)
                        /\ exc' = NoException
                        /\ ret' = [returned |-> TRUE, x_min |-> best.value[1],
                                   fx_min |-> best.value[2]]
                        /\ win_log' = Append(win_log, found.idx)
        /\ UNCHANGED <<type_anchor_points_logic, cm_vars>>

Fs == {"f"}
DFs == {None, "df"}
FDFs == {None, "f_df"}
XOpts == {NoPoint, XOptPoint}

\* a call in which every optimizer run returns
OptimizeRuns ==
    \E f \in Fs, df \in DFs, f_df \in FDFs, x_opt \in XOpts, n \in 0..K :
        \E fx \in [1..Len(get(n, x_opt)) -> Values] :
            optimize(f, df, f_df, x_opt, n, fx, 0)

\* a call in which the optimizer run of one anchor raises
OptimizeRunFails ==
    \E f \in Fs, df \in DFs, f_df \in FDFs, x_opt \in XOpts, n \in 0..K :
        \E fail \in 1..Len(get(n, x_opt)) :
            optimize(f, df, f_df, x_opt, n, [i \in 1..Len(get(n, x_opt)) |-> 0], fail)

-----------------------------------------------------------------------------
(* Specifications *)

\* ContextManager(space) as AcquisitionOptimizer.__init__ builds it: no context
InitContextManager(sp) ==
    /\ space = sp
    /\ constructed = TRUE
    /\ context = NoContext
    /\ all_index = range(model_dimensionality(sp))
    /\ all_index_obj = range(objective_dimensionality(sp))
    /\ context_index = <<>>
    /\ context_value = <<>>
    /\ context_index_obj = <<>>
    /\ nocontext_index_obj = all_index_obj
    /\ noncontext_bounds = get_bounds(sp)
    /\ noncontext_index = all_index
    /\ x_in = NoArray
    /\ x_expanded = NoResult
    /\ re_expanded = FALSE

\* AcquisitionOptimizer.__init__
InitOptimizer ==
    /\ type_anchor_points_logic = max_objective_anchor_points_logic
    /\ spec_win_cnt = 0
    /\ calls = 0
    /\ call_args = NoCall
    /\ anchor_points = <<>>
    /\ apply_calls = <<>>
    /\ optimized_points = <<>>
    /\ min_idx = -1
    /\ ret = NoReturn
    /\ exc = NoException
    /\ failed_at = -1
    /\ win_log = <<>>

\* AcquisitionOptimizer(space) over the 2-D box
Init == InitOptimizer /\ InitContextManager(BoxSpace)

Next == OptimizeRuns \/ OptimizeRunFails

Spec == Init /\ [][Next]_vars

\* a design space whose ContextManager is still to be built
InitCM ==
    /\ InitOptimizer
    /\ space \in Spaces
    /\ constructed = FALSE
    /\ context = NoContext
    /\ all_index = <<>>
    /\ all_index_obj = <<>>
    /\ context_index = <<>>
    /\ context_value = <<>>
    /\ context_index_obj = <<>>
    /\ nocontext_index_obj = <<>>
    /\ noncontext_bounds = <<>>
    /\ noncontext_index = <<>>
    /\ x_in = NoArray
    /\ x_expanded = NoResult
    /\ re_expanded = FALSE

Construct ==
    /\ ~constructed
    /\ \E ctx \in Contexts(space) : ContextManager__init__(ctx)
    /\ UNCHANGED ao_vars

Expand ==
    /\ constructed
    /\ x_in.ndim = 0
    /\ \E x \in Arrays(model_dimensionality(space)) : expand(x)
    /\ UNCHANGED ao_vars

ExpandAgain == expand_again /\ UNCHANGED ao_vars

NextCM == Construct \/ Expand \/ ExpandAgain

SpecCM == InitCM /\ [][NextCM]_vars

-----------------------------------------------------------------------------
(* Properties of AcquisitionOptimizer.optimize (checked under Spec) *)

Completed == ret.returned

XOptGiven == call_args.x_opt # NoPoint

\* C1: for a non-empty sequence of anchors whose optimizer runs all return, optimize
\* returns the pair apply_optimizer produced for some anchor i, its value is <= every
\* anchor's optimized value, and every earlier anchor's value is strictly larger
\* (the earliest anchor wins a tie).
C1_ReturnsFirstMinimum ==
    (calls > 0 /\ anchor_points # <<>> /\ failed_at = -1) =>
        /\ ret.returned
        /\ Len(optimized_points) = Len(anchor_points)
        /\ \E i \in 1..Len(optimized_points) :
              /\ <<ret.x_min, ret.fx_min>> = optimized_points[i]
              /\ optimized_points[i] = apply_optimizer(anchor_points[i], ret.fx_min)
              /\ \A j \in 1..Len(optimized_points) : ret.fx_min <= optimized_points[j][2]
              /\ \A j \in 1..(i - 1) : optimized_points[j][2] > ret.fx_min

\* a call returned the pair of an anchor that is not the first, with a later anchor
\* tied at the same minimum value
C1_Witness ==
    /\ ret.returned
    /\ min_idx >= 1
    /\ \E j \in (min_idx + 2)..Len(optimized_points) : optimized_points[j][2] = ret.fx_min

\* the x_opt anchor (the last one) has a value below every other anchor's
XOptIsStrictMinimum ==
    /\ Completed
    /\ XOptGiven
    /\ \A j \in 1..(Len(optimized_points) - 1) :
          optimized_points[j][2] > optimized_points[Len(optimized_points)][2]

\* C2: whenever a call is given an x_opt whose anchor has the minimal optimized value
\* (here: strictly below all others, so no tie can take the win away), the winning
\* index is the x_opt anchor's position and spec_win_cnt grows by exactly 1 in that
\* call, however many generated anchors there are.
C2_XOptWinIsCounted ==
    [][XOptIsStrictMinimum' =>
          /\ min_idx' = Len(anchor_points') - 1
          /\ spec_win_cnt' = spec_win_cnt + 1]_vars

\* C3 as claimed: a call whose generator returns no anchor points fails with
\* NoAnchorPointsError, returns nothing and leaves spec_win_cnt unchanged.
C3_NoAnchorPointsError ==
    [][(calls' = calls + 1 /\ anchor_points' = <<>>) =>
          /\ exc'.type = "NoAnchorPointsError"
          /\ ~ret'.returned
          /\ spec_win_cnt' = spec_win_cnt]_vars

\* C3 amended: a call whose generator returns no anchor points fails with the
\* ValueError np.vstack raises on an empty list, returns nothing and leaves
\* spec_win_cnt unchanged.
C3_EmptyAnchorsValueError ==
    [][(calls' = calls + 1 /\ anchor_points' = <<>>) =>
          /\ exc' = ValueError
          /\ ~ret'.returned
          /\ spec_win_cnt' = spec_win_cnt]_vars

\* a call without x_opt got no anchor from the generator and raised, after an
\* earlier call had counted a win
C3_Witness ==
    /\ calls > 1
    /\ anchor_points = <<>>
    /\ ~XOptGiven
    /\ exc.type # "none"
    /\ spec_win_cnt > 0

\* C4 as claimed: the failure of the backend run of anchor i reaches the caller as an
\* OptimizerExecutionError carrying i.
C4_OptimizerExecutionError ==
    failed_at # -1 =>
        /\ exc.type = "OptimizerExecutionError"
        /\ exc.anchor_index = failed_at

\* C4 amended: the failure of a backend run reaches the caller as the exception the
\* run raised, unchanged and with no anchor index attached; the call returns nothing,
\* runs no later anchor and leaves spec_win_cnt unchanged.
C4_BackendErrorPropagatesUnchanged ==
    [][failed_at' # -1 =>
          /\ exc' = BackendError
          /\ exc'.anchor_index = -1
          /\ ~ret'.returned
          /\ Len(apply_calls') = failed_at' + 1
          /\ spec_win_cnt' = spec_win_cnt]_vars

\* the run of an anchor that is neither the first nor the last one failed
C4_Witness ==
    /\ failed_at >= 1
    /\ failed_at + 1 < Len(anchor_points)
    /\ exc.type # "none"

\* number of logged calls whose winning index lies beyond the first 5 positions
WinsBeyond(log) == Cardinality({i \in 1..Len(log) : log[i] >= 5})

\* C9: spec_win_cnt is 0 after construction and always equals the number of
\* completed calls whose winning index was >= 5; a completed call adds exactly 1
\* when its winning index is >= 5 and nothing otherwise, a failed call adds nothing,
\* and the counter never decreases.
C9_SpecWinCntCountsWins ==
    /\ [](spec_win_cnt = WinsBeyond(win_log))
    /\ [](calls = 0 => spec_win_cnt = 0)
    /\ [][/\ spec_win_cnt' >= spec_win_cnt
          /\ (ret'.returned /\ min_idx' >= 5) => spec_win_cnt' = spec_win_cnt + 1
          /\ (ret'.returned /\ min_idx' < 5) => spec_win_cnt' = spec_win_cnt
          /\ ~ret'.returned => spec_win_cnt' = spec_win_cnt]_vars

\* two calls completed, one won at index 5 and one at an index below 5
C9_Witness ==
    /\ Len(win_log) >= 2
    /\ \E i, j \in 1..Len(win_log) : win_log[i] >= 5 /\ win_log[j] < 5
    /\ spec_win_cnt = 1

\* C10: every apply_optimizer call of optimize gets the caller's f, df and f_df for
\* its anchor, and there is one such call per anchor when no run fails.
C10_ApplyGetsCallerGradient ==
    /\ failed_at = -1 => Len(apply_calls) = Len(anchor_points)
    /\ \A i \in 1..Len(apply_calls) :
          /\ apply_calls[i].a = anchor_points[i]
          /\ apply_calls[i].f = call_args.f
          /\ apply_calls[i].df = call_args.df
          /\ apply_calls[i].f_df = call_args.f_df

-----------------------------------------------------------------------------
(* Properties of ContextManager (checked under SpecCM) *)

D == model_dimensionality(space)

Called == x_in.ndim # 0

Rows == atleast_2d(x_in)

Width == Len(Rows[1])

\* how many times _expand_vector's two assignments write column c of a row
Writes(c) ==
    Cardinality({j \in 1..Len(noncontext_index) : noncontext_index[j] = c})
    + Cardinality({i \in 1..Len(context_index) : context_index[i] = c})

\* C5: after construction, for any space and context, context_index and
\* noncontext_index are disjoint, their union is all_index = [0, model_dimensionality),
\* and every model dimension is written exactly once by expand.
C5_IndexPartition ==
    constructed =>
        /\ all_index = [i \in 1..D |-> i - 1]
        /\ Range(context_index) \cap Range(noncontext_index) = {}
        /\ Range(context_index) \cup Range(noncontext_index) = Range(all_index)
        /\ \A c \in 0..(D - 1) : Writes(c) = 1

\* a context over two variables, iterated in the reverse of the space's order, that
\* leaves some dimension free
C5_Witness ==
    /\ constructed
    /\ context.given
    /\ Len(context.items) >= 2
    /\ context.items[1][1] > context.items[2][1]
    /\ noncontext_index # <<>>

\* C6: a ContextManager built with no context has noncontext_index = all_index, empty
\* context_index, context_value and context_index_obj, noncontext_bounds equal to the
\* space's bounds, and expand(x) = x for every x of width model_dimensionality.
C6_NoContextIdentity ==
    (constructed /\ ~context.given) =>
        /\ noncontext_index = all_index
        /\ all_index = [i \in 1..D |-> i - 1]
        /\ context_index = <<>>
        /\ context_value = <<>>
        /\ context_index_obj = <<>>
        /\ noncontext_bounds = get_bounds(space)
        /\ (Called /\ Width = D) => x_expanded = [error |-> "none", value |-> Rows]

\* a manager without context expanded an input of full width, at least 2, whose
\* columns differ
C6_Witness ==
    /\ constructed
    /\ ~context.given
    /\ Called
    /\ ~re_expanded
    /\ Width = D
    /\ D >= 2
    /\ Rows[1][1] # Rows[1][2]

\* C7: with a context, expand of an (n, len(noncontext_index)) input is an
\* (n, model_dimensionality) array whose column noncontext_index[j] holds x[:, j] and
\* whose column context_index[i] holds context_value[i], which is the model value of
\* the context's items; a context fixing dimension 0 to 0.3 gives rows starting 0.3.
C7_ExpandFillsColumns ==
    (constructed /\ context.given /\ Called /\ ~re_expanded
        /\ Width = Len(noncontext_index)) =>
        /\ x_expanded.error = "none"
        /\ Len(x_expanded.value) = Len(Rows)
        /\ \A r \in 1..Len(Rows) :
              /\ Len(x_expanded.value[r]) = D
              /\ \A j \in 1..Len(noncontext_index) :
                    x_expanded.value[r][noncontext_index[j] + 1] = Rows[r][j]
              /\ \A i \in 1..Len(context_index) :
                    x_expanded.value[r][context_index[i] + 1] = context_value[i]
              /\ \A i \in 1..Len(context.items) :
                    LET p == context.items[i][1]
                        model_value == objective_to_model(space, p, context.items[i][2])
                    IN  \A q \in 1..Len(model_value) :
                            x_expanded.value[r][index_in_model(space, p)[q] + 1]
                                = model_value[q]
              /\ (space[1] = "continuous" /\ <<1, 3>> \in Range(context.items))
                    => x_expanded.value[r][1] = 3

\* a context fixing dimension 0 to 0.3 together with a later variable, iterated after
\* it, was expanded around a free dimension
C7_Witness ==
    /\ constructed
    /\ context.given
    /\ Called
    /\ ~re_expanded
    /\ space[1] = "continuous"
    /\ Len(context.items) >= 2
    /\ context.items[2] = <<1, 3>>
    /\ Width = Len(noncontext_index)
    /\ Width >= 1
    /\ x_expanded.error = "none"
    /\ x_expanded.value[1][1] = 3

\* C8 as claimed: for every context, expand applied to the full-width result
\* expand(x) returns that array unchanged.
C8_ExpandIdempotent ==
    re_expanded => x_expanded = [error |-> "none", value |-> x_in.data]

\* C8 amended: expand applied to expand(x) returns it unchanged when the context
\* fixes no model dimension or model_dimensionality is 1; when the context fixes a
\* dimension of a space of 2 or more dimensions it raises ValueError (shape mismatch).
C8_IdempotentOnlyWithoutContext ==
    re_expanded =>
        IF Len(noncontext_index) = D \/ D = 1
        THEN x_expanded = [error |-> "none", value |-> x_in.data]
        ELSE x_expanded = [error |-> "ValueError", value |-> <<>>]

\* expand was applied again to its own result under a context that fixes some but not
\* all dimensions, and rejected it
C8_Witness ==
    /\ re_expanded
    /\ context.given
    /\ context_index # <<>>
    /\ x_expanded.error = "ValueError"
    /\ D >= 2
    /\ noncontext_index # <<>>

====
